---- MODULE Spec2Model ----
(***************************************************************************)
(* Model of the four snippets of the repository:                           *)
(*   exercise1.py / abstract_base_user.py  the CustomUser table            *)
(*   exercise2.py                          EmailBackend                    *)
(*   programmatically_permissions.py       the permission script           *)
(* The framework (Django ORM, BaseBackend, Python's call binding) is       *)
(* modelled by what the calls written in the snippets do.                  *)
(***************************************************************************)
EXTENDS Integers, Sequences, FiniteSets, TLC

\* ---------------------------------------------------------------- bounds
MaxAccounts == 2      \* rows the CustomUser table may hold
NumEmails   == 2      \* distinct e-mail addresses offered to create
NumUsers    == 2      \* accounts the script's ambient `user` ranges over
NumGroups   == 1      \* groups the script's ambient `group` ranges over

\* Python's None, SQL NULL
None == "None"

Emails      == {"e" \o ToString(i) : i \in 1..NumEmails}
Phones      == {"", "0700"}
Dates       == {"2000-01-01"}
Pictures    == {"profile_pics/a.png"}
Identifiers == Emails \cup {"nobody"}
Secrets     == {"pw"}
Users       == 1..NumUsers
Groups      == 1..NumGroups

VARIABLES
    customuser,         \* rows of the CustomUser table, in insertion order
    call,               \* the last call made: [op, args]
    ret,                \* what that call returned, or the exception it raised
    auth_permission,    \* rows of the Permission table
    user_groups,        \* user_groups[u]: the groups account u is a member of
    user_permissions,   \* user_permissions[u][p]: rows (u, p) of the through table
    group_permissions,  \* group_permissions[g][p]: rows (g, p) of the through table
    pc,                 \* the script's next statement
    permission,         \* the script's variable `permission`
    user,               \* the script's ambient `user`
    group,              \* the script's ambient `group`
    inserted            \* through rows the current run of the script inserted

vars == <<customuser, call, ret, auth_permission, user_groups, user_permissions,
          group_permissions, pc, permission, user, group, inserted>>

modelVars  == <<customuser>>
scriptVars == <<auth_permission, user_groups, user_permissions, group_permissions,
                pc, permission, user, group, inserted>>

\* ------------------------------------------------------- exercise1.py
\* The table's primary keys and e-mails.
Ids(rows)      == {rows[i].id : i \in 1..Len(rows)}
EmailsOf(rows) == {rows[i].email : i \in 1..Len(rows)}
RowOf(rows, id) == CHOOSE r \in {rows[i] : i \in 1..Len(rows)} : r.id = id

\* email = models.EmailField(unique=True): the UNIQUE constraint of the column.
EmailUniqueNoCheck(rows, email) == TRUE
EmailUnique(rows, email) == email \notin EmailsOf(rows)

\* date_of_birth = models.DateField(): no null=True, so the column is NOT NULL.
DateOfBirthOk(date_of_birth) == date_of_birth # None

\* profile_picture = models.ImageField(..., blank=True, null=True): NULL is stored.
ProfilePictureOkRequired(profile_picture) == profile_picture # None
ProfilePictureOk(profile_picture) == TRUE

\* INSERT of one CustomUser row: the NOT NULL columns are checked, then the
\* UNIQUE index; the outcome is the new table and "ok", or the table as it
\* was and the IntegrityError.
CustomUser_insert(rows, email, phone, date_of_birth, profile_picture) ==
    IF email = None \/ phone = None \/ ~DateOfBirthOk(date_of_birth)
          \/ ~ProfilePictureOk(profile_picture)
    THEN [rows |-> rows, ret |-> "IntegrityError: NOT NULL"]
    ELSE IF ~EmailUnique(rows, email)
    THEN [rows |-> rows, ret |-> "IntegrityError: UNIQUE"]
    ELSE [rows |-> Append(rows, [id |-> Len(rows) + 1, email |-> email,
                                 phone |-> phone, date_of_birth |-> date_of_birth,
                                 profile_picture |-> profile_picture]),
          ret |-> "ok"]

\* CustomUser.objects.create(email=..., phone=..., date_of_birth=..., profile_picture=...)
Create(email, phone, date_of_birth, profile_picture) ==
    /\ LET out == CustomUser_insert(customuser, email, phone, date_of_birth,
                                    profile_picture)
       IN  /\ Len(out.rows) <= MaxAccounts
           /\ customuser' = out.rows
           /\ ret' = out.ret
    /\ call' = [op |-> "create",
                args |-> [email |-> email, phone |-> phone,
                          date_of_birth |-> date_of_birth,
                          profile_picture |-> profile_picture]]
    /\ UNCHANGED scriptVars

\* ------------------------------------------------------- exercise2.py
\* A Python call: the positional arguments after self, and the keyword
\* arguments as a function from parameter names to values.
NoKw == [n \in {} |-> None]
Kw(names, username, password) ==
    [n \in names |-> IF n = "username" THEN username ELSE password]

\* Calls a caller can write against authenticate(request, username, password):
\* the first k parameters positionally, any of the rest by keyword.
AuthCalls ==
    { [pos |-> <<"request">>, kw |-> Kw(names, u, p)] :
          names \in SUBSET {"username", "password"},
          u \in Identifiers \cup {None}, p \in Secrets \cup {None} }
    \cup { [pos |-> <<"request", u>>, kw |-> Kw(names, None, p)] :
          names \in SUBSET {"password"},
          u \in Identifiers \cup {None}, p \in Secrets \cup {None} }
    \cup { [pos |-> <<"request", u, p>>, kw |-> NoKw] :
          u \in Identifiers \cup {None}, p \in Secrets \cup {None} }

\* The value a call binds to the i-th parameter `name` whose default is None.
Bound(c, i, name) ==
    IF i <= Len(c.pos) THEN c.pos[i]
    ELSE IF name \in DOMAIN c.kw THEN c.kw[name] ELSE None

\* Python's binding of a call to a signature of `params` positional-or-keyword
\* parameters (`required` of them without a default), with or without **kwargs.
Binds(c, params, required, varkw) ==
    /\ Len(c.pos) <= Len(params)
    /\ \A i \in 1..Len(params) :
          /\ ~(i <= Len(c.pos) /\ params[i] \in DOMAIN c.kw)
          /\ i <= required => (i <= Len(c.pos) \/ params[i] \in DOMAIN c.kw)
    /\ varkw \/ DOMAIN c.kw \subseteq {params[i] : i \in 1..Len(params)}

\* BaseBackend.authenticate(self, request, **kwargs): return None
BaseBackend_authenticate(c) ==
    IF Binds(c, <<"request">>, 1, TRUE) THEN None ELSE "TypeError"

\* BaseBackend.get_user(self, user_id): return None
BaseBackend_get_user(user_id) == None

\* def authenticate(self, request, username = None, password = None):
\*     return super().authenticate(request, username, password)
EmailBackend_authenticate(c) ==
    IF ~Binds(c, <<"request", "username", "password">>, 1, FALSE) THEN "TypeError"
    ELSE BaseBackend_authenticate(
             [pos |-> <<Bound(c, 1, "request"), Bound(c, 2, "username"),
                        Bound(c, 3, "password")>>,
              kw  |-> NoKw])

\* def get_user(self, user_id): return super().get_user(user_id)
EmailBackend_get_user(user_id) == BaseBackend_get_user(user_id)

Authenticate(c) ==
    /\ call' = [op |-> "authenticate", args |-> c]
    /\ ret' = EmailBackend_authenticate(c)
    /\ UNCHANGED <<modelVars, scriptVars>>

GetUser(user_id) ==
    /\ call' = [op |-> "get_user", args |-> [user_id |-> user_id]]
    /\ ret' = EmailBackend_get_user(user_id)
    /\ UNCHANGED <<modelVars, scriptVars>>

\* ---------------------------------------- programmatically_permissions.py
\* Rows the Permission table may hold: codename is unique per content type only.
PermissionCatalogue ==
    { [id |-> 1, content_type |-> "blog.post",  codename |-> "add_post"],
      [id |-> 2, content_type |-> "forum.post", codename |-> "add_post"],
      [id |-> 3, content_type |-> "blog.post",  codename |-> "change_post"] }
PermIds == {r.id : r \in PermissionCatalogue}

\* Permission.objects.get(codename=...): the one matching row, or the exception.
Permission_get_default(table, codename) ==
    LET found == {r \in table : r.codename = codename}
    IN  IF Cardinality(found) > 1
        THEN [exc |-> "MultipleObjectsReturned", id |-> None]
        ELSE [exc |-> None, id |-> (CHOOSE r \in found \cup PermissionCatalogue :
                                       found # {} => r \in found).id]
Permission_get(table, codename) ==
    LET found == {r \in table : r.codename = codename}
    IN  IF found = {} THEN [exc |-> "DoesNotExist", id |-> None]
        ELSE IF Cardinality(found) > 1
             THEN [exc |-> "MultipleObjectsReturned", id |-> None]
        ELSE [exc |-> None, id |-> (CHOOSE r \in found : TRUE).id]

\* <related manager>.add(permission): the through table gets a row
\* (owner, permission) unless it already holds one.
M2M_add_always(rows, owner, perm) ==
    [rows EXCEPT ![owner][perm] = @ + 1]
M2M_add_replace(rows, owner, perm) ==
    [rows EXCEPT ![owner] = [p \in PermIds |-> IF p = perm THEN 1 ELSE 0]]
M2M_add(rows, owner, perm) ==
    IF rows[owner][perm] > 0 THEN rows
    ELSE [rows EXCEPT ![owner][perm] = 1]

\* The permissions a through table gives an owner.
Held(rows, owner) == {p \in PermIds : rows[owner][p] > 0}

\* line 4: permission = Permission.objects.get(codename='add_post'),
\* run with `user` and `group` bound to an account u and a group g.
Line4(u, g) ==
    /\ pc = "line4"
    /\ LET got == Permission_get(auth_permission, "add_post")
       IN  /\ permission' = got.id
           /\ ret' = IF got.exc = None THEN "ok" ELSE got.exc
           /\ pc' = IF got.exc = None THEN "line7" ELSE "line4"
    /\ user' = u
    /\ group' = g
    /\ inserted' = {}
    /\ call' = [op |-> "line4", args |-> [codename |-> "add_post"]]
    /\ UNCHANGED <<modelVars, auth_permission, user_groups, user_permissions,
                   group_permissions>>

\* line 7: user.user_permissions.add(permission)
Line7 ==
    /\ pc = "line7"
    /\ user_permissions' = M2M_add(user_permissions, user, permission)
    /\ inserted' = IF user_permissions' # user_permissions
                   THEN inserted \cup {"user"} ELSE inserted
    /\ pc' = "line10"
    /\ ret' = "ok"
    /\ call' = [op |-> "line7", args |-> [user |-> user, permission |-> permission]]
    /\ UNCHANGED <<modelVars, auth_permission, user_groups, group_permissions,
                   permission, user, group>>

\* line 10: group.permissions.add(permission); the script ends.
Line10_granting ==
    /\ pc = "line10"
    /\ group_permissions' = M2M_add(group_permissions, group, permission)
    /\ user_permissions' =
          [u \in Users |-> IF group \in user_groups[u]
                           THEN [user_permissions[u] EXCEPT ![permission] = 1]
                           ELSE user_permissions[u]]
    /\ inserted' = IF group_permissions' # group_permissions
                   THEN inserted \cup {"group"} ELSE inserted
    /\ pc' = "line4"
    /\ ret' = "ok"
    /\ call' = [op |-> "line10", args |-> [group |-> group, permission |-> permission]]
    /\ UNCHANGED <<modelVars, auth_permission, user_groups, permission, user, group>>
Line10_noadd ==
    /\ pc = "line10"
    /\ pc' = "line4"
    /\ ret' = "ok"
    /\ call' = [op |-> "line10", args |-> [group |-> group, permission |-> permission]]
    /\ UNCHANGED <<modelVars, auth_permission, user_groups, user_permissions,
                   group_permissions, permission, user, group, inserted>>
Line10 ==
    /\ pc = "line10"
    /\ group_permissions' = M2M_add(group_permissions, group, permission)
    /\ inserted' = IF group_permissions' # group_permissions
                   THEN inserted \cup {"group"} ELSE inserted
    /\ pc' = "line4"
    /\ ret' = "ok"
    /\ call' = [op |-> "line10", args |-> [group |-> group, permission |-> permission]]
    /\ UNCHANGED <<modelVars, auth_permission, user_groups, user_permissions,
                   permission, user, group>>

\* ------------------------------------------------------ specifications
\* Grants found in the data store when the script is first run: none, every
\* existing permission other than add_post, or every existing permission.
Seeds == {"none", "others", "all"}
Seeded(owners, table, seed) ==
    [o \in owners |-> [p \in PermIds |->
        IF /\ seed # "none"
           /\ \E r \in table : r.id = p /\ (seed = "all" \/ r.codename # "add_post")
        THEN 1 ELSE 0]]

\* The data store the script is run against.
InitScript ==
    /\ auth_permission \in SUBSET PermissionCatalogue
    /\ user_groups \in [Users -> SUBSET Groups]
    /\ \E su \in Seeds : user_permissions = Seeded(Users, auth_permission, su)
    /\ \E sg \in Seeds : group_permissions = Seeded(Groups, auth_permission, sg)
    /\ pc = "line4"
    /\ permission = None
    /\ user \in Users
    /\ group \in Groups
    /\ inserted = {}

\* The data store right after migration: no accounts, no grants, no members.
InitFresh ==
    /\ auth_permission = PermissionCatalogue
    /\ user_groups = [u \in Users |-> {}]
    /\ user_permissions = Seeded(Users, auth_permission, "none")
    /\ group_permissions = Seeded(Groups, auth_permission, "none")
    /\ pc = "line4"
    /\ permission = None
    /\ user = 1
    /\ group = 1
    /\ inserted = {}

InitCalls ==
    /\ customuser = <<>>
    /\ call = [op |-> "none", args |-> <<>>]
    /\ ret = None

Init == InitCalls /\ InitScript
InitAuth == InitCalls /\ InitFresh

NextModel ==
    \E email \in Emails \cup {None}, phone \in Phones,
       date_of_birth \in Dates \cup {None}, profile_picture \in Pictures \cup {None} :
        Create(email, phone, date_of_birth, profile_picture)

NextBackend ==
    \/ \E c \in AuthCalls : Authenticate(c)
    \/ \E user_id \in 1..(MaxAccounts + 1) : GetUser(user_id)

NextScript ==
    \/ \E u \in Users, g \in Groups : Line4(u, g)
    \/ Line7
    \/ Line10

Next == NextModel \/ NextBackend \/ NextScript

\* The whole repository.
Spec == Init /\ [][Next]_vars
\* The account table and the authentication backend.
SpecAuth == InitAuth /\ [][NextModel \/ NextBackend]_vars
\* The permission script.
SpecPerms == Init /\ [][NextScript]_vars

\* ------------------------------------------------------------- claims
LastRow(rows) == rows[Len(rows)]
IsCreate(c)   == c.op = "create"
\* Field sets the columns of CustomUser accept.
ValidFields(a) == a.email # None /\ a.phone # None /\ a.date_of_birth # None

\* C1: creating an account whose e-mail is already stored fails with the
\* UNIQUE violation and stores nothing, creating one with a new e-mail (and
\* valid fields) succeeds and stores it, and no two stored accounts ever
\* share an e-mail.
C1_EmailUniqueness ==
    /\ [](\A i, j \in 1..Len(customuser) :
             customuser[i].email = customuser[j].email => i = j)
    /\ [][(IsCreate(call') /\ ValidFields(call'.args)) =>
            IF call'.args.email \in EmailsOf(customuser)
            THEN ret' = "IntegrityError: UNIQUE" /\ customuser' = customuser
            ELSE /\ ret' = "ok"
                 /\ customuser' = Append(customuser, LastRow(customuser'))
                 /\ LastRow(customuser').email = call'.args.email]_vars
C1_Witness ==
    /\ IsCreate(call)
    /\ ret = "IntegrityError: UNIQUE"
    /\ call.args.email \in EmailsOf(customuser)
    /\ Len(customuser) = 2

\* C2: get_user(id) returns the stored account for every id that was created,
\* and None for every id that was not.
C2_GetUserReturnsAccount ==
    call.op = "get_user" =>
        IF call.args.user_id \in Ids(customuser)
        THEN ret # None /\ ret = RowOf(customuser, call.args.user_id)
        ELSE ret = None

\* C3: authenticate returns exactly what the fallback's authenticate returns
\* for the same call, and get_user what the fallback's get_user returns.
C3_DelegationEquivalence ==
    /\ call.op = "authenticate" => ret = BaseBackend_authenticate(call.args)
    /\ call.op = "get_user" => ret = BaseBackend_get_user(call.args.user_id)

\* C4: authenticate with an identifier that matches no stored account, or with
\* the identifier or the secret absent, returns None and raises nothing.
C4_AuthenticateNeverThrows ==
    (/\ call.op = "authenticate"
     /\ \/ Bound(call.args, 2, "username") \notin EmailsOf(customuser)
        \/ Bound(call.args, 3, "password") = None)
    => ret = None

C5_NotFoundNoSideEffect ==
    [][(call'.op = "line4"
        /\ ~\E r \in auth_permission : r.codename = call'.args.codename)
       => /\ ret' = "DoesNotExist"
          /\ pc' = "line4"
          /\ user_permissions' = user_permissions
          /\ group_permissions' = group_permissions]_vars
C5_Witness ==
    /\ call.op = "line4"
    /\ ret = "DoesNotExist"
    /\ auth_permission # {}
    /\ \E u \in Users : Held(user_permissions, u) # {}

\* C6: the through tables never hold a grant twice, a completed run leaves
\* the account and the group each holding the permission exactly once, and an
\* add of a permission already held changes nothing.
C6_Idempotent ==
    /\ [](/\ \A u \in Users, p \in PermIds : user_permissions[u][p] <= 1
          /\ \A g \in Groups, p \in PermIds : group_permissions[g][p] <= 1)
    /\ [][/\ call'.op = "line10"
             => /\ user_permissions'[user][permission] = 1
                /\ group_permissions'[group][permission] = 1
          /\ (call'.op = "line7" /\ permission \in Held(user_permissions, user))
             => user_permissions' = user_permissions
          /\ (call'.op = "line10" /\ permission \in Held(group_permissions, group))
             => group_permissions' = group_permissions]_vars
C6_Witness ==
    /\ call.op = "line10"
    /\ inserted = {}
    /\ user_permissions[user][permission] = 1
    /\ group_permissions[group][permission] = 1

\* C7: the add to the group puts the permission in the group's set and
\* changes no account's individual set, members of the group included.
C7_GroupAddLeavesAccounts ==
    [][call'.op = "line10"
       => /\ permission \in Held(group_permissions', group)
          /\ user_permissions' = user_permissions]_vars
C7_Witness ==
    /\ call.op = "line10"
    /\ permission \in Held(group_permissions, group)
    /\ \E u \in Users : /\ group \in user_groups[u]
                        /\ permission \notin Held(user_permissions, u)

\* The account holds the permission from this run and the group does not.
AccountAheadOfGroup ==
    /\ "user" \in inserted
    /\ permission \notin Held(group_permissions, group)

====
